---- MODULE Spec2Model ----
(***************************************************************************)
(* Model of the auth commands of turso-cli (internal/cmd/auth.go): login,  *)
(* logout and token, with the callback server's handlers and the version   *)
(* probe as concurrent tasks that talk to login over capacity-1 channels.  *)
(***************************************************************************)
EXTENDS Integers, Sequences, FiniteSets, TLC

\* ---- bounds of the model ----
MaxRequests == 3   \* callback requests per run of login
MaxRuns == 2       \* commands run one after the other on the same settings

\* ---- values ----
ChanCap == 1                       \* make(chan string, 1)
StatusOK == 200                    \* http.StatusOK
version == "v1"                    \* the CLI's own version
Jwts == {"", "a"}                  \* credentials
Versions == {"", "v1", "v2"}       \* contents of the "latest" field
Statuses == {200, 401}

\* the jwt parameter of a callback request: absent, or present with a value
Queries == {[has |-> FALSE, val |-> ""]} \cup {[has |-> TRUE, val |-> v] : v \in Jwts}

\* no request yet
NoQuery == [has |-> FALSE, val |-> ""]

\* url.Values.Get: the value, or "" when the key is absent
QueryGet(q) == IF q.has THEN q.val ELSE ""

\* responses of GET /v2/validate/token
ValidateResponses == {[neterr |-> TRUE, status |-> 0]} \cup
                     {[neterr |-> FALSE, status |-> s] : s \in Statuses}

\* responses of GET /releases/latest: body is "unreadable", "malformed" or "json"
ReleaseResponses ==
    {[neterr |-> TRUE, status |-> 0, body |-> "json", latest |-> ""]} \cup
    {[neterr |-> FALSE, status |-> 401, body |-> "json", latest |-> "v2"]} \cup
    {[neterr |-> FALSE, status |-> 200, body |-> b, latest |-> "v2"] : b \in {"unreadable", "malformed"}} \cup
    {[neterr |-> FALSE, status |-> 200, body |-> "json", latest |-> v] : v \in Versions}

\* no response yet, and the probe's locals before fetchLatestVersion has returned
NoResp == [neterr |-> FALSE, status |-> 0, body |-> "none", latest |-> ""]
NoResult == [v |-> "", err |-> FALSE]

VARIABLES
    token,           \* the persisted credential (settings)
    runs,            \* commands started so far
    cmd,             \* the command that is running: "none", "login", "logout", "token"
    pc,              \* position of the command
    reason,          \* why the command failed ("" if it has not)
    out,             \* what the command printed
    log,             \* the calls the command made, in order
    ch,              \* login's credential channel
    versionChannel,  \* login's version channel
    server,          \* "none", "created", "serving", "shuttingDown", "closed"
    handlers,        \* the callback requests: [pc, v], v the operand of the send
    request,         \* the jwt parameter of the request that arrived last
    sent,            \* the values whose send on ch completed, in order
    probe,           \* the version probe task: "none", "fetching", "sending", "done"
    probeResp,       \* the response to the probe's GET /releases/latest
    probeRes,        \* the probe's latestVersion, err: what fetchLatestVersion returned
    jwt,             \* login's local jwt
    written,         \* arguments of the SetToken calls of this command, in order
    err,             \* login's err after SetToken
    latestVersion    \* login's local latestVersion

vars == <<token, runs, cmd, pc, reason, out, log, ch, versionChannel, server,
          handlers, request, sent, probe, probeResp, probeRes, jwt, written, err, latestVersion>>

cmdVars == <<cmd, pc, reason, out, log>>
srvVars == <<server, handlers, request, sent, ch>>
probeVars == <<probe, probeResp, probeRes, versionChannel>>
locals == <<jwt, written, err, latestVersion>>

\* ---- account show (internal/cmd/account_show.go) ----
MaxDatabases == 2   \* databases of the account
InstanceCounts == {0, 1, 2}   \* how many instances a database can have

VARIABLES
    showPc,          \* position of account show
    dbInstances,     \* dbInstances: the number of instances of each database
    dbIdx,           \* databases the first loop has been through
    instanceCount,   \* instanceCount
    resCap,          \* capacity of inspectResCh
    inspectResCh,    \* inspectResCh
    tasks,           \* the goroutines of the errgroup: "run", "send", "done", "failed"
    gErr,            \* whether the errgroup holds an error
    received         \* i of the collecting loop

showVars == <<showPc, dbInstances, dbIdx, instanceCount, resCap, inspectResCh,
              tasks, gErr, received>>
allVars == <<vars, showVars>>

\* ---- helpers ----
Count(s, e) == Cardinality({i \in 1..Len(s) : s[i] = e})
Has(s, e) == \E i \in 1..Len(s) : s[i] = e
Pos(s, e) == CHOOSE i \in 1..Len(s) : s[i] = e
Before(s, a, b) == Has(s, a) /\ Has(s, b) /\ Pos(s, a) < Pos(s, b)
Active(h) == h.pc # "done"

\* isJwtTokenValid without the check of the empty token
isJwtTokenValid_NoEmptyCheck(t, resp) == ~resp.neterr /\ resp.status = StatusOK

\* isJwtTokenValid: an empty token is invalid without a request
NeedsValidateCall(t) == t # ""
isJwtTokenValid(t, resp) == t # "" /\ ~resp.neterr /\ resp.status = StatusOK

\* the log after isJwtTokenValid: the request it made, if any, and the answer
ValidateLog(l, t, resp) ==
    IF ~NeedsValidateCall(t) THEN l
    ELSE Append(l, IF isJwtTokenValid(t, resp) THEN "Validate200" ELSE "ValidateRejected")

\* fetchLatestVersion without the check of an empty "latest" field
fetchLatestVersion_NoEmptyCheck(resp) ==
    IF resp.neterr THEN [v |-> "", err |-> TRUE]
    ELSE IF resp.status # StatusOK THEN [v |-> "", err |-> TRUE]
    ELSE IF resp.body = "unreadable" THEN [v |-> "", err |-> TRUE]
    ELSE IF resp.body = "malformed" THEN [v |-> "", err |-> TRUE]
    ELSE [v |-> resp.latest, err |-> FALSE]

\* fetchLatestVersion: the version and whether an error is returned
fetchLatestVersion(resp) ==
    IF resp.neterr THEN [v |-> "", err |-> TRUE]
    ELSE IF resp.status # StatusOK THEN [v |-> "", err |-> TRUE]
    ELSE IF resp.body = "unreadable" THEN [v |-> "", err |-> TRUE]
    ELSE IF resp.body = "malformed" THEN [v |-> "", err |-> TRUE]
    ELSE IF resp.latest = "" THEN [v |-> "", err |-> TRUE]
    ELSE [v |-> resp.latest, err |-> FALSE]

\* the probe goroutine's choice of the value to send
ProbeValue(res) == IF res.err THEN version ELSE res.v

\* settings.SetToken: the stored value after a call that succeeds or fails
SetToken(old, v, ok) == IF ok THEN v ELSE old

Init ==
    /\ token \in Jwts
    /\ runs = 0
    /\ cmd = "none" /\ pc = "idle" /\ reason = "" /\ out = {} /\ log = <<>>
    /\ ch = <<>> /\ versionChannel = <<>>
    /\ server = "none" /\ handlers = <<>> /\ request = NoQuery /\ sent = <<>>
    /\ probe = "none" /\ probeResp = NoResp /\ probeRes = NoResult
    /\ jwt = "" /\ written = <<>> /\ err = FALSE /\ latestVersion = ""
    /\ showPc = "idle" /\ dbInstances = <<>> /\ dbIdx = 0 /\ instanceCount = 0
    /\ resCap = 0 /\ inspectResCh = <<>> /\ tasks = <<>> /\ gErr = FALSE /\ received = 0

Fail(r) == pc' = "Failed" /\ reason' = r

\* ---- starting a command ----
Start ==
    /\ pc = "idle" /\ runs < MaxRuns
    /\ \E c \in {"login", "logout", "token"} : cmd' = c
    /\ pc' = "readSettings"
    /\ runs' = runs + 1
    /\ UNCHANGED <<token, reason, out, log, srvVars, probeVars, locals>>
    /\ UNCHANGED showVars

\* settings.ReadSettings() of the three commands
ReadSettings ==
    /\ pc = "readSettings"
    /\ \E ok \in BOOLEAN :
         IF ok THEN pc' = (IF cmd = "logout" THEN "logoutCheck" ELSE "validate") /\ reason' = reason
         ELSE Fail("config")
    /\ log' = Append(log, "ReadSettings")
    /\ UNCHANGED <<token, runs, cmd, out, srvVars, probeVars, locals>>
    /\ UNCHANGED showVars

\* ---- login ----
\* LoginValidate without the early return: a valid credential starts the flow too
LoginValidate_NoReturn ==
    /\ cmd = "login" /\ pc = "validate"
    /\ \E resp \in ValidateResponses :
         /\ log' = ValidateLog(log, token, resp)
         /\ out' = out \cup (IF isJwtTokenValid(token, resp) THEN {"StillValid"} ELSE {"Waiting"})
    /\ pc' = "createServer"
    /\ ch' = <<>>
    /\ UNCHANGED <<token, runs, cmd, reason, versionChannel, server, handlers, request, sent,
                   probe, probeResp, probeRes, locals>>
    /\ UNCHANGED showVars

\* isJwtTokenValid(settings.GetToken()) and the early return of login
LoginValidate ==
    /\ cmd = "login" /\ pc = "validate"
    /\ \E resp \in ValidateResponses :
         /\ log' = ValidateLog(log, token, resp)
         /\ IF isJwtTokenValid(token, resp)
            THEN /\ out' = out \cup {"StillValid"}
                 /\ pc' = "Done"
                 /\ ch' = ch
            ELSE /\ out' = out \cup {"Waiting"}
                 /\ pc' = "createServer"
                 /\ ch' = <<>>
    /\ UNCHANGED <<token, runs, cmd, reason, versionChannel, server, handlers, request, sent,
                   probe, probeResp, probeRes, locals>>
    /\ UNCHANGED showVars

\* createCallbackServer: the template is parsed, the handler registered
LoginCreateServer ==
    /\ cmd = "login" /\ pc = "createServer"
    /\ \E tmplOk \in BOOLEAN :
         IF tmplOk
         THEN server' = "created" /\ pc' = "runServer" /\ reason' = reason
              /\ log' = Append(log, "ParseTemplate")
         ELSE server' = server /\ Fail("callback")
              /\ log' = Append(log, "ParseTemplateErr")
    /\ UNCHANGED <<token, runs, cmd, out, ch, versionChannel, handlers, request, sent,
                   probe, probeResp, probeRes, locals>>
    /\ UNCHANGED showVars

\* LoginRunServer going on with port 0 when net.Listen fails
LoginRunServer_IgnoreListenErr ==
    /\ cmd = "login" /\ pc = "runServer"
    /\ \E listenOk \in BOOLEAN :
         /\ server' = IF listenOk THEN "serving" ELSE server
         /\ log' = Append(log, IF listenOk THEN "Listen" ELSE "ListenErr")
    /\ pc' = "beginAuth"
    /\ UNCHANGED <<token, runs, cmd, reason, out, ch, versionChannel, handlers, request, sent,
                   probe, probeResp, probeRes, locals>>
    /\ UNCHANGED showVars

\* runServer: net.Listen and the goroutine that serves
LoginRunServer ==
    /\ cmd = "login" /\ pc = "runServer"
    /\ \E listenOk \in BOOLEAN :
         IF listenOk
         THEN server' = "serving" /\ pc' = "beginAuth" /\ reason' = reason
              /\ log' = Append(log, "Listen")
         ELSE server' = server /\ Fail("server") /\ log' = Append(log, "ListenErr")
    /\ UNCHANGED <<token, runs, cmd, out, ch, versionChannel, handlers, request, sent,
                   probe, probeResp, probeRes, locals>>
    /\ UNCHANGED showVars

\* LoginBeginAuth returning the error of browser.OpenURL to login
LoginBeginAuth_Propagate ==
    /\ cmd = "login" /\ pc = "beginAuth"
    /\ \E hostOk \in BOOLEAN, openOk \in BOOLEAN :
         IF ~hostOk
         THEN Fail("auth") /\ out' = out /\ log' = Append(log, "ParseHostErr")
         ELSE /\ log' = Append(log, "OpenURL")
              /\ out' = IF openOk THEN out ELSE out \cup {"PleaseOpen"}
              /\ IF openOk THEN pc' = "startProbe" /\ reason' = reason ELSE Fail("auth")
    /\ UNCHANGED <<token, runs, cmd, srvVars, probeVars, locals>>
    /\ UNCHANGED showVars

\* beginAuth: url.Parse of the host, browser.OpenURL with the printed fallback
LoginBeginAuth ==
    /\ cmd = "login" /\ pc = "beginAuth"
    /\ \E hostOk \in BOOLEAN, openOk \in BOOLEAN :
         IF ~hostOk
         THEN Fail("auth") /\ out' = out /\ log' = Append(log, "ParseHostErr")
         ELSE /\ pc' = "startProbe" /\ reason' = reason
              /\ log' = Append(log, "OpenURL")
              /\ out' = IF openOk THEN out ELSE out \cup {"PleaseOpen"}
    /\ UNCHANGED <<token, runs, cmd, srvVars, probeVars, locals>>
    /\ UNCHANGED showVars

\* make(chan string, 1) and the go statement of the version probe
LoginStartProbe ==
    /\ cmd = "login" /\ pc = "startProbe"
    /\ versionChannel' = <<>>
    /\ probe' = "fetching"
    /\ pc' = "recvJwt"
    /\ log' = Append(log, "StartProbe")
    /\ UNCHANGED <<token, runs, cmd, reason, out, srvVars, probeResp, probeRes, locals>>
    /\ UNCHANGED showVars

\* LoginRecvJwt waiting for the version result as well as for the credential
LoginRecvJwt_AwaitVersion ==
    /\ cmd = "login" /\ pc = "recvJwt"
    /\ Len(ch) > 0
    /\ Len(versionChannel) > 0
    /\ jwt' = Head(ch)
    /\ ch' = Tail(ch)
    /\ pc' = "setToken"
    /\ log' = Append(log, "RecvJwt")
    /\ UNCHANGED <<token, runs, cmd, reason, out, versionChannel, server, handlers, request, sent,
                   probe, probeResp, probeRes, written, err, latestVersion>>
    /\ UNCHANGED showVars

\* LoginRecvJwt giving up the wait when no credential has come
LoginRecvJwt_Timeout ==
    /\ cmd = "login" /\ pc = "recvJwt"
    /\ IF Len(ch) > 0
       THEN /\ jwt' = Head(ch)
            /\ ch' = Tail(ch)
            /\ pc' = "setToken" /\ reason' = reason
            /\ log' = Append(log, "RecvJwt")
       ELSE Fail("timeout") /\ UNCHANGED <<jwt, ch, log>>
    /\ UNCHANGED <<token, runs, cmd, out, versionChannel, server, handlers, request, sent,
                   probe, probeResp, probeRes, written, err, latestVersion>>
    /\ UNCHANGED showVars

\* jwt := <-ch
LoginRecvJwt ==
    /\ cmd = "login" /\ pc = "recvJwt"
    /\ Len(ch) > 0
    /\ jwt' = Head(ch)
    /\ ch' = Tail(ch)
    /\ pc' = "setToken"
    /\ log' = Append(log, "RecvJwt")
    /\ UNCHANGED <<token, runs, cmd, reason, out, versionChannel, server, handlers, request, sent,
                   probe, probeResp, probeRes, written, err, latestVersion>>
    /\ UNCHANGED showVars

\* LoginSetToken returning on the error at once, before the Shutdown call
LoginSetToken_ReturnOnError ==
    /\ cmd = "login" /\ pc = "setToken"
    /\ \E ok \in BOOLEAN :
         /\ token' = SetToken(token, jwt, ok)
         /\ err' = ~ok
         /\ log' = Append(log, IF ok THEN "SetToken" ELSE "SetTokenErr")
         /\ IF ok THEN pc' = "shutdown" /\ reason' = reason ELSE Fail("persist")
    /\ written' = Append(written, jwt)
    /\ UNCHANGED <<runs, cmd, out, srvVars, probeVars, jwt, latestVersion>>
    /\ UNCHANGED showVars

\* LoginSetToken refusing an empty credential as a malformed callback
LoginSetToken_RejectEmpty ==
    /\ cmd = "login" /\ pc = "setToken"
    /\ IF jwt = ""
       THEN Fail("callback") /\ UNCHANGED <<token, err, log, written>>
       ELSE /\ \E ok \in BOOLEAN :
                 /\ token' = SetToken(token, jwt, ok)
                 /\ err' = ~ok
                 /\ log' = Append(log, IF ok THEN "SetToken" ELSE "SetTokenErr")
            /\ written' = Append(written, jwt)
            /\ pc' = "shutdown" /\ reason' = reason
    /\ UNCHANGED <<runs, cmd, out, srvVars, probeVars, jwt, latestVersion>>
    /\ UNCHANGED showVars

\* LoginSetToken writing the newest value of the channel when there is one
LoginSetToken_Latest ==
    /\ cmd = "login" /\ pc = "setToken"
    /\ \E ok \in BOOLEAN :
         /\ token' = SetToken(token, IF Len(ch) > 0 THEN Head(ch) ELSE jwt, ok)
         /\ err' = ~ok
         /\ log' = Append(log, IF ok THEN "SetToken" ELSE "SetTokenErr")
    /\ written' = Append(written, IF Len(ch) > 0 THEN Head(ch) ELSE jwt)
    /\ pc' = "shutdown"
    /\ UNCHANGED <<runs, cmd, reason, out, srvVars, probeVars, jwt, latestVersion>>
    /\ UNCHANGED showVars

\* err = settings.SetToken(jwt)
LoginSetToken ==
    /\ cmd = "login" /\ pc = "setToken"
    /\ \E ok \in BOOLEAN :
         /\ token' = SetToken(token, jwt, ok)
         /\ err' = ~ok
         /\ log' = Append(log, IF ok THEN "SetToken" ELSE "SetTokenErr")
    /\ written' = Append(written, jwt)
    /\ pc' = "shutdown"
    /\ UNCHANGED <<runs, cmd, reason, out, srvVars, probeVars, jwt, latestVersion>>
    /\ UNCHANGED showVars

\* LoginShutdown after the check of err: a failed write returns without it
LoginShutdown_OnlyOnSuccess ==
    /\ cmd = "login" /\ pc = "shutdown"
    /\ IF err
       THEN Fail("persist") /\ UNCHANGED <<server, log>>
       ELSE /\ server' = "shuttingDown"
            /\ pc' = "shutdownWait" /\ reason' = reason
            /\ log' = Append(log, "Shutdown")
    /\ UNCHANGED <<token, runs, cmd, out, ch, versionChannel, handlers, request, sent,
                   probeVars, locals>>
    /\ UNCHANGED showVars

\* server.Shutdown(context.Background()) is called: the listener closes
LoginShutdown ==
    /\ cmd = "login" /\ pc = "shutdown"
    /\ server' = "shuttingDown"
    /\ pc' = "shutdownWait"
    /\ log' = Append(log, "Shutdown")
    /\ UNCHANGED <<token, runs, cmd, reason, out, ch, versionChannel, handlers, request, sent,
                   probeVars, locals>>
    /\ UNCHANGED showVars

\* LoginShutdownReturn going on to the success message without the receive
\* from the version channel
LoginShutdownReturn_SkipJoin ==
    /\ cmd = "login" /\ pc = "shutdownWait"
    /\ \A i \in 1..Len(handlers) : ~Active(handlers[i])
    /\ server' = "closed"
    /\ log' = Append(log, "ShutdownReturn")
    /\ IF err THEN Fail("persist")
       ELSE pc' = "report" /\ reason' = reason
    /\ UNCHANGED <<token, runs, cmd, out, ch, versionChannel, handlers, request, sent,
                   probeVars, locals>>
    /\ UNCHANGED showVars

\* Shutdown returns once no handler is running; then login checks err
LoginShutdownReturn ==
    /\ cmd = "login" /\ pc = "shutdownWait"
    /\ \A i \in 1..Len(handlers) : ~Active(handlers[i])
    /\ server' = "closed"
    /\ log' = Append(log, "ShutdownReturn")
    /\ IF err THEN Fail("persist")
       ELSE pc' = "recvVersion" /\ reason' = reason
    /\ UNCHANGED <<token, runs, cmd, out, ch, versionChannel, handlers, request, sent,
                   probeVars, locals>>
    /\ UNCHANGED showVars

\* LoginRecvVersion placed before the receive of the credential
LoginRecvVersion_Early ==
    /\ cmd = "login" /\ pc \in {"recvJwt", "recvVersion"}
    /\ Len(versionChannel) > 0
    /\ latestVersion' = Head(versionChannel)
    /\ versionChannel' = Tail(versionChannel)
    /\ pc' = (IF pc = "recvVersion" THEN "report" ELSE pc)
    /\ log' = Append(log, "RecvVersion")
    /\ UNCHANGED <<token, runs, cmd, reason, out, srvVars, probe, probeResp, probeRes,
                   jwt, written, err>>
    /\ UNCHANGED showVars

\* latestVersion := <-versionChannel
LoginRecvVersion ==
    /\ cmd = "login" /\ pc = "recvVersion"
    /\ Len(versionChannel) > 0
    /\ latestVersion' = Head(versionChannel)
    /\ versionChannel' = Tail(versionChannel)
    /\ pc' = "report"
    /\ log' = Append(log, "RecvVersion")
    /\ UNCHANGED <<token, runs, cmd, reason, out, srvVars, probe, probeResp, probeRes,
                   jwt, written, err>>
    /\ UNCHANGED showVars

\* the success message and the upgrade notice
LoginReport ==
    /\ cmd = "login" /\ pc = "report"
    /\ out' = out \cup {"Success"} \cup (IF version # latestVersion THEN {"Notice"} ELSE {})
    /\ pc' = "Done"
    /\ log' = Append(log, "Report")
    /\ UNCHANGED <<token, runs, cmd, reason, srvVars, probeVars, locals>>
    /\ UNCHANGED showVars

\* ---- the callback server's handler, one per request ----
\* a request reaches the listener and its handler starts: q := r.URL.Query(),
\* and q.Get("jwt"), the operand of the send, is evaluated
HandlerArrive ==
    /\ server = "serving"
    /\ Len(handlers) < MaxRequests
    /\ \E q \in Queries :
         /\ request' = q
         /\ handlers' = Append(handlers, [pc |-> "send", v |-> QueryGet(q)])
    /\ UNCHANGED <<token, runs, cmdVars, ch, versionChannel, server, sent, probe,
                   probeResp, probeRes, locals>>
    /\ UNCHANGED showVars

\* HandlerSend on an unbuffered channel: the send waits for login's receive
HandlerSend_Unbuffered(i) ==
    /\ handlers[i].pc = "send"
    /\ Len(ch) < ChanCap
    /\ cmd = "login" /\ pc = "recvJwt"
    /\ ch' = Append(ch, handlers[i].v)
    /\ sent' = Append(sent, handlers[i].v)
    /\ handlers' = [handlers EXCEPT ![i].pc = "done"]
    /\ UNCHANGED <<token, runs, cmdVars, versionChannel, server, request, probeVars, locals>>
    /\ UNCHANGED showVars

\* the send jwtCh <- ... blocks while the channel is full,
\* then w.WriteHeader(200) and tmpl.Execute(w, ...) and the handler returns
HandlerSend(i) ==
    /\ handlers[i].pc = "send"
    /\ Len(ch) < ChanCap
    /\ ch' = Append(ch, handlers[i].v)
    /\ sent' = Append(sent, handlers[i].v)
    /\ handlers' = [handlers EXCEPT ![i].pc = "done"]
    /\ UNCHANGED <<token, runs, cmdVars, versionChannel, server, request, probeVars, locals>>
    /\ UNCHANGED showVars

\* ---- the version probe goroutine ----
\* fetchLatestVersion() returns
ProbeFetch ==
    /\ probe = "fetching"
    /\ \E resp \in ReleaseResponses :
         /\ probeResp' = resp
         /\ probeRes' = fetchLatestVersion(resp)
    /\ probe' = "sending"
    /\ UNCHANGED <<token, runs, cmdVars, srvVars, versionChannel, locals>>
    /\ UNCHANGED showVars

\* ProbeSend on an unbuffered channel: the send waits for login's receive
ProbeSend_Unbuffered ==
    /\ probe = "sending"
    /\ Len(versionChannel) < ChanCap
    /\ cmd = "login" /\ pc = "recvVersion"
    /\ versionChannel' = Append(versionChannel, ProbeValue(probeRes))
    /\ probe' = "done"
    /\ UNCHANGED <<token, runs, cmdVars, srvVars, probeResp, probeRes, locals>>
    /\ UNCHANGED showVars

\* versionChannel <- ...
ProbeSend ==
    /\ probe = "sending"
    /\ Len(versionChannel) < ChanCap
    /\ versionChannel' = Append(versionChannel, ProbeValue(probeRes))
    /\ probe' = "done"
    /\ UNCHANGED <<token, runs, cmdVars, srvVars, probeResp, probeRes, locals>>
    /\ UNCHANGED showVars

\* ---- logout ----
\* the token check, SetToken("") with its result dropped, the message
Logout ==
    /\ cmd = "logout" /\ pc = "logoutCheck"
    /\ IF token = ""
       THEN /\ out' = out \cup {"NoUser"}
            /\ UNCHANGED <<token, written, err, log>>
       ELSE /\ \E ok \in BOOLEAN :
                 /\ token' = SetToken(token, "", ok)
                 /\ log' = Append(log, IF ok THEN "SetToken" ELSE "SetTokenErr")
            /\ written' = Append(written, "")
            /\ err' = err
            /\ out' = out \cup {"LoggedOut"}
    /\ pc' = "Done"
    /\ UNCHANGED <<runs, cmd, reason, srvVars, probeVars, jwt, latestVersion>>
    /\ UNCHANGED showVars

\* ---- token ----
TokenShow ==
    /\ cmd = "token" /\ pc = "validate"
    /\ \E resp \in ValidateResponses :
         /\ log' = ValidateLog(log, token, resp)
         /\ IF isJwtTokenValid(token, resp)
            THEN out' = out \cup {"Token"} /\ jwt' = token /\ pc' = "Done" /\ reason' = reason
            ELSE out' = out /\ jwt' = jwt /\ Fail("unauthenticated")
    /\ UNCHANGED <<token, runs, cmd, srvVars, probeVars, written, err, latestVersion>>
    /\ UNCHANGED showVars

\* ---- the command returns and the process exits; the next one starts afresh ----
Exit ==
    /\ pc \in {"Done", "Failed"}
    /\ runs < MaxRuns
    /\ cmd' = "none" /\ pc' = "idle" /\ reason' = "" /\ out' = {} /\ log' = <<>>
    /\ ch' = <<>> /\ versionChannel' = <<>>
    /\ server' = "none" /\ handlers' = <<>> /\ request' = NoQuery /\ sent' = <<>>
    /\ probe' = "none" /\ probeResp' = NoResp /\ probeRes' = NoResult
    /\ jwt' = "" /\ written' = <<>> /\ err' = FALSE /\ latestVersion' = ""
    /\ UNCHANGED <<token, runs>>
    /\ UNCHANGED showVars

Orchestrator ==
    \/ LoginValidate \/ LoginCreateServer \/ LoginRunServer \/ LoginBeginAuth
    \/ LoginStartProbe \/ LoginRecvJwt \/ LoginSetToken \/ LoginShutdown
    \/ LoginShutdownReturn \/ LoginRecvVersion \/ LoginReport

Handler == \E i \in 1..Len(handlers) : HandlerSend(i)

Next ==
    \/ Start
    \/ ReadSettings
    \/ LoginValidate
    \/ LoginCreateServer
    \/ LoginRunServer
    \/ LoginBeginAuth
    \/ LoginStartProbe
    \/ LoginRecvJwt
    \/ LoginSetToken
    \/ LoginShutdown
    \/ LoginShutdownReturn
    \/ LoginRecvVersion
    \/ LoginReport
    \/ HandlerArrive
    \/ \E i \in 1..Len(handlers) : HandlerSend(i)
    \/ ProbeFetch
    \/ ProbeSend
    \/ Logout
    \/ TokenShow
    \/ Exit

Spec == Init /\ [][Next]_allVars

\* ---- account show ----
\* the lists client.Instances.List can return, one length per database
DbLists ==
    UNION {[1..n -> InstanceCounts] : n \in 0..MaxDatabases}

\* the instances of all databases together
RECURSIVE SumSeq(_)
SumSeq(q) == IF q = <<>> THEN 0 ELSE Head(q) + SumSeq(Tail(q))

Finished(t) == t \in {"done", "failed"}

\* the command starts: ReadSettings, the client, client.Databases.List()
ShowList ==
    /\ showPc = "idle"
    /\ \E ok \in BOOLEAN :
         IF ok THEN \E d \in DbLists : dbInstances' = d /\ showPc' = "gather"
         ELSE dbInstances' = dbInstances /\ showPc' = "Failed"
    /\ UNCHANGED <<dbIdx, instanceCount, resCap, inspectResCh, tasks, gErr, received>>
    /\ UNCHANGED vars

\* one turn of the first loop: Instances.List and Token of a database, and
\* instanceCount += len(instances)
ShowGather ==
    /\ showPc = "gather"
    /\ dbIdx < Len(dbInstances)
    /\ \E ok \in BOOLEAN :
         IF ok
         THEN /\ instanceCount' = instanceCount + dbInstances[dbIdx + 1]
              /\ dbIdx' = dbIdx + 1
              /\ showPc' = showPc
         ELSE showPc' = "Failed" /\ UNCHANGED <<instanceCount, dbIdx>>
    /\ UNCHANGED <<dbInstances, resCap, inspectResCh, tasks, gErr, received>>
    /\ UNCHANGED vars

\* ShowMakeChan with one slot per database instead of one per instance
ShowMakeChan_PerDatabase ==
    /\ showPc = "gather"
    /\ dbIdx = Len(dbInstances)
    /\ resCap' = Len(dbInstances)
    /\ inspectResCh' = <<>>
    /\ showPc' = "spawn"
    /\ UNCHANGED <<dbInstances, dbIdx, instanceCount, tasks, gErr, received>>
    /\ UNCHANGED vars

\* inspectResCh := make(chan *InspectInfo, instanceCount)
ShowMakeChan ==
    /\ showPc = "gather"
    /\ dbIdx = Len(dbInstances)
    /\ resCap' = instanceCount
    /\ inspectResCh' = <<>>
    /\ showPc' = "spawn"
    /\ UNCHANGED <<dbInstances, dbIdx, instanceCount, tasks, gErr, received>>
    /\ UNCHANGED vars

\* the second loop: one g.Go per instance of every database, then g.Wait()
ShowSpawn ==
    /\ showPc = "spawn"
    /\ IF Len(tasks) < SumSeq(dbInstances)
       THEN tasks' = Append(tasks, "run") /\ showPc' = showPc
       ELSE tasks' = tasks /\ showPc' = "wait"
    /\ UNCHANGED <<dbInstances, dbIdx, instanceCount, resCap, inspectResCh, gErr, received>>
    /\ UNCHANGED vars

\* inspect(ctx, ...) of a goroutine returns: with an error the goroutine
\* returns it to the group
TaskInspect(i) ==
    /\ tasks[i] = "run"
    /\ \E ok \in BOOLEAN :
         IF ok THEN tasks' = [tasks EXCEPT ![i] = "send"] /\ gErr' = gErr
         ELSE tasks' = [tasks EXCEPT ![i] = "failed"] /\ gErr' = TRUE
    /\ UNCHANGED <<showPc, dbInstances, dbIdx, instanceCount, resCap, inspectResCh, received>>
    /\ UNCHANGED vars

\* inspectResCh <- ret; return nil
TaskSend(i) ==
    /\ tasks[i] = "send"
    /\ Len(inspectResCh) < resCap
    /\ inspectResCh' = Append(inspectResCh, "ret")
    /\ tasks' = [tasks EXCEPT ![i] = "done"]
    /\ UNCHANGED <<showPc, dbInstances, dbIdx, instanceCount, resCap, gErr, received>>
    /\ UNCHANGED vars

\* g.Wait() returns when every goroutine has returned; its error ends the command
ShowWait ==
    /\ showPc = "wait"
    /\ \A i \in 1..Len(tasks) : Finished(tasks[i])
    /\ showPc' = (IF gErr THEN "Failed" ELSE "collect")
    /\ UNCHANGED <<dbInstances, dbIdx, instanceCount, resCap, inspectResCh, tasks, gErr, received>>
    /\ UNCHANGED vars

\* one turn of the collecting loop: ret := <-inspectResCh; Accumulate
ShowRecv ==
    /\ showPc = "collect"
    /\ received < instanceCount
    /\ Len(inspectResCh) > 0
    /\ inspectResCh' = Tail(inspectResCh)
    /\ received' = received + 1
    /\ UNCHANGED <<showPc, dbInstances, dbIdx, instanceCount, resCap, tasks, gErr>>
    /\ UNCHANGED vars

\* the loop ends and the table is printed
ShowFinish ==
    /\ showPc = "collect"
    /\ received = instanceCount
    /\ showPc' = "Done"
    /\ UNCHANGED <<dbInstances, dbIdx, instanceCount, resCap, inspectResCh, tasks, gErr, received>>
    /\ UNCHANGED vars

NextShow ==
    \/ ShowList
    \/ ShowGather
    \/ ShowMakeChan
    \/ ShowSpawn
    \/ \E i \in 1..Len(tasks) : TaskInspect(i)
    \/ \E i \in 1..Len(tasks) : TaskSend(i)
    \/ ShowWait
    \/ ShowRecv
    \/ ShowFinish

SpecShow == Init /\ [][NextShow]_allVars

\* login's own goroutine runs whenever it can; nothing is assumed of the probe's
\* network call or of the requests
FairLogin == Spec /\ WF_vars(Orchestrator)

\* the probe goroutine
Probe == ProbeFetch \/ ProbeSend

\* every goroutine that can run does run, and the probe's network call returns
FairAll == Spec /\ WF_vars(Orchestrator) /\ WF_vars(Handler) /\ WF_vars(Probe)

TypeOK ==
    /\ token \in Jwts
    /\ runs \in 0..MaxRuns
    /\ Len(ch) <= ChanCap
    /\ Len(versionChannel) <= ChanCap

\* ---- the claims ----
Terminal == pc \in {"Done", "Failed"}

\* C1 as stated: in a run of login that received a credential, the server's
\* shutdown has occurred by the time the credential is written with SetToken.
C1_ShutdownBeforeWrite ==
    (cmd = "login" /\ Len(written) > 0) => Has(log, "Shutdown")

\* C1 amended: in a run of login that received a credential the write comes
\* first; Shutdown is called after SetToken has returned, whether the write
\* succeeded or failed, and before login goes on to check the write's error.
C1_WriteThenShutdown ==
    cmd = "login" =>
      /\ Has(log, "Shutdown") =>
           /\ Len(written) = 1
           /\ Before(log, "SetToken", "Shutdown") \/ Before(log, "SetTokenErr", "Shutdown")
      /\ (Has(log, "RecvJwt") /\ pc \notin {"setToken", "shutdown"}) => Has(log, "Shutdown")

C1_Witness ==
    cmd = "login" /\ Has(log, "SetTokenErr") /\ Has(log, "Shutdown")

\* C2 as stated: however many callback requests arrive, login is never left
\* stuck in the server's shutdown: while Shutdown waits, either no handler is
\* running or a running handler can complete its send.
C2_NoStuckShutdown ==
    (cmd = "login" /\ pc = "shutdownWait") =>
      \/ \A i \in 1..Len(handlers) : ~Active(handlers[i])
      \/ \E i \in 1..Len(handlers) : handlers[i].pc = "send" /\ Len(ch) < ChanCap

\* C3: in one run login receives at most one value from the channel (exactly
\* one once it is past the receive), calls SetToken at most once, and the value
\* received and written is the value of the first send that entered the
\* channel, whatever later requests carried.
C3_FirstValueOnly ==
    cmd = "login" =>
      /\ Count(log, "RecvJwt") <= 1
      /\ Len(written) <= 1
      /\ Has(log, "RecvJwt") => Len(sent) >= 1 /\ jwt = sent[1]
      /\ Len(written) = 1 => Has(log, "RecvJwt") /\ written[1] = sent[1]
      /\ pc \in {"setToken", "shutdown", "shutdownWait", "recvVersion", "report"} =>
           Count(log, "RecvJwt") = 1

C3_Witness ==
    /\ cmd = "login" /\ Len(written) = 1
    /\ Len(sent) >= 2 /\ sent[2] # sent[1]
    /\ written[1] = sent[1]

\* C4 as stated: once the callback server listens, every terminal state of login
\* has seen exactly one Shutdown call.
C4_ShutdownOnEveryExit ==
    (cmd = "login" /\ Terminal /\ Has(log, "Listen")) => Count(log, "Shutdown") = 1

\* C5: when the persisted credential is non-empty and validation answers 200,
\* login is Done with only the still-valid message: no template parsed, no port
\* bound, no browser opened, no probe started, no SetToken call; and the step
\* that gets the 200 leaves the persisted credential as it was.
C5_ShortCircuitState ==
    (cmd = "login" /\ Has(log, "Validate200")) =>
      /\ pc = "Done" /\ reason = "" /\ out = {"StillValid"}
      /\ token # ""
      /\ server = "none" /\ handlers = <<>> /\ probe = "none"
      /\ ~Has(log, "ParseTemplate") /\ ~Has(log, "ParseTemplateErr")
      /\ ~Has(log, "Listen") /\ ~Has(log, "ListenErr")
      /\ ~Has(log, "OpenURL") /\ ~Has(log, "StartProbe")
      /\ written = <<>>

\* C5: the short-circuit state above holds throughout, and no step of a login
\* that has got the 200 changes the persisted credential, in the first run and
\* in every later run on the same settings.
C5_ShortCircuit ==
    /\ []C5_ShortCircuitState
    /\ [][(cmd' = "login" /\ Has(log', "Validate200")) => token' = token]_vars

C5_Witness ==
    cmd = "login" /\ runs = MaxRuns /\ Has(log, "Validate200") /\ pc = "Done"

\* C6: once login waits at the receive and a request has delivered a
\* credential, the write is made and Shutdown is called with the version
\* result still unread, in every fair run of login's goroutine, also in runs in
\* which the probe never completes: nothing on the way waits on the version
\* channel.
C6_OnlyCredentialAwaited ==
    (cmd = "login" /\ pc = "recvJwt" /\ Len(ch) > 0)
      ~> (cmd = "login" /\ Len(written) = 1 /\ Has(log, "Shutdown") /\ ~Has(log, "RecvVersion"))

C6_Witness ==
    /\ cmd = "login" /\ Len(written) = 1 /\ Has(log, "Shutdown")
    /\ probe = "fetching" /\ versionChannel = <<>>

\* C7: in a run of login the credential is received before Shutdown is called,
\* Shutdown and the successful write come before the receive of the version
\* result, and that receive comes before the outcome report.
C7_EventOrder ==
    cmd = "login" =>
      /\ Has(log, "Shutdown") => Before(log, "RecvJwt", "Shutdown")
      /\ Has(log, "RecvVersion") =>
           /\ Before(log, "RecvJwt", "RecvVersion")
           /\ Before(log, "SetToken", "RecvVersion")
           /\ Before(log, "Shutdown", "RecvVersion")
      /\ Has(log, "Report") => Before(log, "RecvVersion", "Report")
      /\ ("Success" \in out \/ "Notice" \in out) => Has(log, "Report")
      /\ (pc = "Done" /\ Has(log, "Listen")) => Has(log, "Report")

C7_Witness ==
    cmd = "login" /\ pc = "Done" /\ Has(log, "Report") /\ Len(sent) >= 1

\* C8 as stated: a command whose write of the credential failed ends in Failed
\* and has printed neither the success message of login nor that of logout.
C8_WriteFailureFails ==
    Has(log, "SetTokenErr") =>
      /\ "Success" \notin out /\ "LoggedOut" \notin out
      /\ Terminal => pc = "Failed"

\* a failed probe, read off the response alone
ProbeFailed(resp) ==
    \/ resp.neterr
    \/ resp.status # 200
    \/ resp.body \in {"unreadable", "malformed"}
    \/ resp.latest = ""

\* C9: whatever the probe's response, a failed probe hands login the current
\* version and never fails it: a run that joined the probe ends in Done with
\* the success message, and the upgrade notice is printed exactly when the
\* probe succeeded with a non-empty version other than the current one.
C9_ProbeFailureAbsorbed ==
    /\ (cmd = "login" /\ Has(log, "RecvVersion")) =>
         /\ pc \in {"report", "Done"} /\ reason = ""
         /\ ProbeFailed(probeResp) => latestVersion = version
         /\ ~ProbeFailed(probeResp) => latestVersion = probeResp.latest
    /\ (cmd = "login" /\ Has(log, "Report")) =>
         /\ pc = "Done" /\ "Success" \in out
         /\ "Notice" \in out <=>
              (~ProbeFailed(probeResp) /\ probeResp.latest # "" /\ probeResp.latest # version)
    /\ (cmd = "login" /\ pc = "Failed") => "Notice" \notin out

C9_Witness ==
    /\ cmd = "login" /\ pc = "Done" /\ Has(log, "Report")
    /\ probeResp.status = 200 /\ probeResp.body = "json" /\ probeResp.latest = ""
    /\ "Success" \in out /\ "Notice" \notin out

\* C10 as stated: every terminal state of a run of login that started the probe
\* has received the version result exactly once.
C10_ConsumedExactlyOnce ==
    (cmd = "login" /\ Terminal /\ Has(log, "StartProbe")) => Count(log, "RecvVersion") = 1

\* C10 amended: login receives the version result at most once; exactly once in
\* a run that started the probe and ends in Done, and not at all in a run that
\* ends in a persistence failure.
C10_ConsumedOnceOnSuccess ==
    cmd = "login" =>
      /\ Count(log, "RecvVersion") <= 1
      /\ Has(log, "RecvVersion") => Has(log, "StartProbe") /\ latestVersion = ProbeValue(probeRes)
      /\ (pc = "Done" /\ Has(log, "StartProbe")) => Count(log, "RecvVersion") = 1
      /\ (pc = "Failed" /\ Has(log, "StartProbe")) =>
           reason = "persist" /\ Count(log, "RecvVersion") = 0

C10_Witness ==
    /\ cmd = "login" /\ pc = "Failed" /\ reason = "persist"
    /\ Has(log, "StartProbe") /\ probe = "done" /\ Len(versionChannel) = 1

\* C11: when the browser cannot be opened, beginAuth prints the login URL and
\* returns nil: login goes on to start the version probe and to wait on the
\* credential channel, and never fails for that reason (it can only fail later,
\* on the write of the credential).
C11_OpenFailureAbsorbed ==
    (cmd = "login" /\ "PleaseOpen" \in out) =>
      /\ Has(log, "OpenURL") /\ ~Has(log, "ParseHostErr")
      /\ reason \in {"", "persist"}
      /\ pc = "startProbe" \/ Has(log, "StartProbe")
      /\ pc = "Failed" => Has(log, "SetTokenErr")
      /\ Has(log, "StartProbe") => probe # "none"

C11_Witness ==
    /\ cmd = "login" /\ "PleaseOpen" \in out
    /\ pc = "recvJwt" /\ ch = <<>> /\ probe = "fetching"

\* C12 as stated: logout makes no network call; with an empty credential it
\* prints the no-op message and writes nothing; with a non-empty one it calls
\* SetToken(""); and after a logout that has returned the persisted credential
\* is empty.
C12_LogoutClears ==
    cmd = "logout" =>
      /\ ~Has(log, "Validate200") /\ ~Has(log, "ValidateRejected")
      /\ "NoUser" \in out => written = <<>>
      /\ "LoggedOut" \in out => written = <<"">>
      /\ pc = "Done" => token = ""

\* C13: the token command fails as unauthenticated when the persisted credential
\* is empty, without a validation request, or when validation does not answer
\* 200; otherwise it prints the persisted credential as it is; and no step of it
\* changes the persisted credential.
C13_TokenState ==
    cmd = "token" =>
      /\ written = <<>>
      /\ ~Has(log, "SetToken") /\ ~Has(log, "SetTokenErr")
      /\ (Terminal /\ reason # "config") =>
           IF token = ""
           THEN pc = "Failed" /\ reason = "unauthenticated" /\ out = {}
                /\ ~Has(log, "Validate200") /\ ~Has(log, "ValidateRejected")
           ELSE IF Has(log, "Validate200")
           THEN pc = "Done" /\ out = {"Token"} /\ jwt = token
           ELSE pc = "Failed" /\ reason = "unauthenticated" /\ out = {}
                /\ Has(log, "ValidateRejected")

\* C13: the state part above holds throughout and the token command never
\* changes the persisted credential.
C13_TokenShow ==
    /\ []C13_TokenState
    /\ [][cmd' = "token" => token' = token]_vars

C13_Witness ==
    cmd = "token" /\ pc = "Done" /\ out = {"Token"} /\ jwt = "a" /\ token = "a"

\* C14: when the confirmation template does not parse or no port can be bound,
\* login is Failed at once: no browser-open attempt, no version probe, no write
\* of the settings, no request served; and a template failure comes before any
\* attempt to bind a port.
C14_ServerStartFailure ==
    /\ (cmd = "login" /\ (Has(log, "ParseTemplateErr") \/ Has(log, "ListenErr"))) =>
         /\ pc = "Failed"
         /\ ~Has(log, "OpenURL") /\ ~Has(log, "ParseHostErr") /\ "PleaseOpen" \notin out
         /\ ~Has(log, "StartProbe") /\ probe = "none"
         /\ written = <<>> /\ ~Has(log, "SetToken") /\ ~Has(log, "SetTokenErr")
         /\ server # "serving" /\ handlers = <<>>
    /\ (cmd = "login" /\ Has(log, "ParseTemplateErr")) =>
         /\ reason = "callback" /\ server = "none"
         /\ ~Has(log, "Listen") /\ ~Has(log, "ListenErr")
    /\ (cmd = "login" /\ Has(log, "ListenErr")) =>
         /\ reason = "server" /\ server = "created"
         /\ Before(log, "ParseTemplate", "ListenErr") /\ ~Has(log, "Listen")

C14_Witness ==
    cmd = "login" /\ pc = "Failed" /\ reason = "server" /\ Has(log, "ListenErr")

\* C15: a request handled before login has reached its receive is neither
\* blocked nor lost: while nothing has been sent the channel is empty and every
\* waiting handler can complete its send at once, wherever login is; the first
\* value sent stays in the channel until login receives it, and it is the value
\* login receives.
C15_EarlySendKept ==
    cmd = "login" =>
      /\ sent = <<>> =>
           /\ ch = <<>>
           /\ \A i \in 1..Len(handlers) : handlers[i].pc = "send" => ENABLED HandlerSend(i)
      /\ (Len(sent) >= 1 /\ ~Has(log, "RecvJwt")) => ch = <<sent[1]>>
      /\ Has(log, "RecvJwt") => jwt = sent[1]

C15_Witness ==
    /\ cmd = "login" /\ pc = "beginAuth"
    /\ Len(sent) = 1 /\ ch = <<sent[1]>> /\ handlers[1].pc = "done"

\* C16: a request whose jwt parameter is missing or empty makes its handler send
\* the empty string (any other value is sent as it is); login, having received
\* the empty string, calls SetToken with it like with any credential; once that
\* write has succeeded the persisted credential is empty, whatever it was, and
\* login does not fail but ends in Done with the success message.
C16_EmptyJwtPersisted ==
    cmd = "login" =>
      /\ Len(handlers) >= 1 =>
           handlers[Len(handlers)].v =
             (IF ~request.has \/ request.val = "" THEN "" ELSE request.val)
      /\ (Has(log, "RecvJwt") /\ jwt = "" /\ pc # "setToken") => written = <<"">>
      /\ (written = <<"">> /\ Has(log, "SetToken")) =>
           token = "" /\ reason = "" /\ pc # "Failed"
      /\ (written = <<"">> /\ pc = "Done") => "Success" \in out

C16_Witness ==
    /\ cmd = "login" /\ pc = "Done" /\ "Success" \in out
    /\ Len(handlers) = 1 /\ ~request.has
    /\ Has(log, "ValidateRejected") /\ written = <<"">> /\ token = ""

\* C17: in a fair run of login, the handlers and the probe, once exactly one
\* callback request has arrived login reaches Done or Failed (unless more
\* requests arrive); and login leaves the wait for the credential only by
\* receiving one: with no request it waits there for ever, there is no timeout.
C17_TerminatesAfterOneCallback ==
    /\ (cmd = "login" /\ Len(handlers) = 1) ~> (Terminal \/ Len(handlers) > 1)
    /\ [][(cmd = "login" /\ pc = "recvJwt" /\ sent = <<>>) => pc' = "recvJwt"]_vars

C17_Witness ==
    /\ cmd = "login" /\ pc = "Done" /\ Has(log, "Report")
    /\ Len(handlers) = 1 /\ probeRes.err /\ ~Has(log, "Validate200")

\* C18: a run of login calls Shutdown at most once, only after it has received
\* a credential, and has called it exactly once by the time it is past that
\* statement, after a write that failed as after one that succeeded: login
\* never returns from the received credential, and never with the persistence
\* error, while the server is still listening.
C18_ShutdownAfterReceive ==
    cmd = "login" =>
      /\ Count(log, "Shutdown") <= 1
      /\ Has(log, "Shutdown") => Has(log, "RecvJwt") /\ server \in {"shuttingDown", "closed"}
      /\ (Has(log, "RecvJwt") /\ Terminal) => Count(log, "Shutdown") = 1 /\ server = "closed"
      /\ (pc = "Failed" /\ reason = "persist") =>
           Has(log, "SetTokenErr") /\ Count(log, "Shutdown") = 1 /\ server = "closed"
      /\ Has(log, "SetTokenErr") => pc \in {"shutdown", "shutdownWait", "Failed"}

C18_Witness ==
    /\ cmd = "login" /\ pc = "Failed" /\ reason = "persist"
    /\ Count(log, "Shutdown") = 1 /\ server = "closed" /\ Len(handlers) = 2

\* C19: the probe goroutine sends once on the version channel and that send can
\* always complete at once: the channel is empty until the probe has sent, the
\* probe at its send is never blocked wherever login is, and once the probe is
\* done exactly one value has been sent, received by login or, when login has
\* returned on the persistence error, left unread in the channel.
C19_ProbeSendNeverBlocks ==
    /\ probe \in {"none", "fetching", "sending"} =>
         versionChannel = <<>> /\ ~Has(log, "RecvVersion")
    /\ probe = "sending" => ENABLED ProbeSend
    /\ probe = "done" => Len(versionChannel) + Count(log, "RecvVersion") = 1
    /\ (cmd = "login" /\ pc = "Failed" /\ probe = "done") =>
         versionChannel = <<ProbeValue(probeRes)>>

C19_Witness ==
    /\ cmd = "login" /\ pc = "Failed" /\ reason = "persist"
    /\ probe = "done" /\ probeRes.err /\ versionChannel = <<version>>
    /\ ~Has(log, "RecvVersion")

\* C20: in account show the result channel has one slot per instance, so a
\* goroutine at its send can always complete it; when g.Wait() has returned
\* without error every goroutine has sent once and the collecting loop can take
\* each of its instanceCount turns, ending with the channel empty; when an
\* inspect has failed the command ends only after every goroutine has returned,
\* with nothing received and no goroutine left at its send.
C20_InspectResultsCollected ==
    /\ showPc \in {"spawn", "wait", "collect", "Done"} =>
         resCap = SumSeq(dbInstances) /\ instanceCount = SumSeq(dbInstances)
    /\ \A i \in 1..Len(tasks) : tasks[i] = "send" => ENABLED TaskSend(i)
    /\ showPc = "collect" =>
         /\ ~gErr /\ Len(tasks) = instanceCount
         /\ \A i \in 1..Len(tasks) : tasks[i] = "done"
         /\ Len(inspectResCh) + received = instanceCount
         /\ received < instanceCount => ENABLED ShowRecv
    /\ showPc = "Done" =>
         /\ received = instanceCount /\ inspectResCh = <<>>
         /\ Len(tasks) = instanceCount /\ ~gErr
    /\ (showPc = "Failed" /\ gErr) =>
         /\ Len(tasks) = SumSeq(dbInstances)
         /\ \A i \in 1..Len(tasks) : Finished(tasks[i])
         /\ received = 0

C20_Witness ==
    /\ showPc = "Failed" /\ gErr
    /\ Len(tasks) > Len(dbInstances) /\ Len(inspectResCh) >= 2
====
